---- MODULE Spec2Model ----
(***************************************************************************)
(* The session engine of src/backend: rooms, players, the connection       *)
(* registry, the per-room two-phase prompt timer, the wagering function    *)
(* and the websocket handler, as cooperative tasks on one event loop.      *)
(*                                                                         *)
(* A step of the model is what one task does between two suspension points *)
(* (an await that yields: a sleep, a send, a receive).  The operators      *)
(* below are written as functions from a state record to a state record,   *)
(* so that a handler that calls schedule_next_event, which calls           *)
(* broadcast_to_room, is one composed step.                                *)
(*                                                                         *)
(* Time is counted in ticks relative to now: a timestamp is stored as the  *)
(* number of ticks left until it (-1 once it has passed), a sleep as the   *)
(* number of ticks left of it (-1 once it has fully elapsed).              *)
(***************************************************************************)
EXTENDS Integers, Sequences, FiniteSets, TLC

(***************************************************************************)
(* Bounds of the model.                                                    *)
(***************************************************************************)
\* websockets that can be open at the same time
MaxConns == 2
\* length of the prompt script the provider returns (a prefix of DEMO_EVENTS)
NumEvents == 2
\* largest number of prompts of a game the wager amount is computed for
MaxPrompts == 12

(***************************************************************************)
(* Program constants.                                                      *)
(***************************************************************************)
\* Player.score default
StartScore == 200
\* the dividend of calculate_wager_amount
WagerPool == 200

RoomIds == {"r1", "r2"}
Conns == 1..MaxConns
TimerIds == {"t1", "t2"}
EventIds == 1..NumEvents
\* Room.host_name, fixed by create_room
host_name == "host"
\* names a client may give in its join_room message
Names == {"host", "alice", "bob"}
\* answer ids a client may send (an absent or 0 answer_id is falsy)
AnswerIds == {1, 2}

\* the members class MessageType declares
MessageTypeMembers ==
    {"JOIN_ROOM", "SUBMIT_ANSWER", "START_GAME", "ROOM_UPDATE", "NEW_EVENT",
     "ANSWERS_CLOSED", "EVENT_RESOLVED", "EVENT_RESULTS", "GAME_ENDED",
     "ANSWER_SUBMITTED", "ERROR"}
\* the members main.py refers to and class MessageType does not declare
ReferencedOnly == {"PLACE_BET", "BET_PLACED", "BETTING_CLOSED"}

\* DEMO_EVENTS[e].correct_answer_id
correct_answer_id(e) == << 1, 2, 2, 1, 2, 2 >>[((e - 1) % 6) + 1]
\* Event.timer_seconds, Event.resolution_delay_seconds and the pause between
\* prompts, in whole ticks (a tick is longer than any of them): only their
\* order in time matters to the engine
timer_seconds(e) == 0
resolution_delay_seconds(e) == 0
pause_seconds(r) == 0

VARIABLES
    MessageType,         \* the names MessageType.<NAME> resolves
    DEMO_EVENTS,         \* the Event objects, shared by every room: status, expires_at
    game_states,         \* the room ids of game_states
    game_status,         \* room.game_status
    players,             \* room.players: name -> Player
    current_event,       \* room.current_event: an index of DEMO_EVENTS, 0 for None
    completed_events,    \* room.completed_events: indices of DEMO_EVENTS
    current_bets,        \* game_state.current_bets: name -> answer_id
    active_connections,  \* manager.active_connections: room -> list of websockets
    player_connections,  \* manager.player_connections: websocket -> name ("-": absent)
    room_timers,         \* room_timers: room -> timer task ("none": absent)
    tasks,               \* the coroutines: websocket handlers, admin requests, timers
    client_gone,         \* websocket -> its peer has gone (sends raise, receive raises)
    score_before_bet     \* history: name -> the score a bettor had before the
                         \* first bet on the current prompt

vars == << MessageType, DEMO_EVENTS, game_states, game_status, players,
           current_event, completed_events, current_bets, active_connections,
           player_connections, room_timers, tasks, client_gone,
           score_before_bet >>

\* the state as one record, for the operators below
State ==
    [ MessageType |-> MessageType, DEMO_EVENTS |-> DEMO_EVENTS,
      game_states |-> game_states, game_status |-> game_status,
      players |-> players, current_event |-> current_event,
      completed_events |-> completed_events, current_bets |-> current_bets,
      active_connections |-> active_connections,
      player_connections |-> player_connections, room_timers |-> room_timers,
      tasks |-> tasks, client_gone |-> client_gone,
      score_before_bet |-> score_before_bet ]

Becomes(s) ==
    /\ MessageType' = s.MessageType
    /\ DEMO_EVENTS' = s.DEMO_EVENTS
    /\ game_states' = s.game_states
    /\ game_status' = s.game_status
    /\ players' = s.players
    /\ current_event' = s.current_event
    /\ completed_events' = s.completed_events
    /\ current_bets' = s.current_bets
    /\ active_connections' = s.active_connections
    /\ player_connections' = s.player_connections
    /\ room_timers' = s.room_timers
    /\ tasks' = s.tasks
    /\ client_gone' = s.client_gone
    /\ score_before_bet' = s.score_before_bet

(***************************************************************************)
(* Tasks.  A task is where a coroutine is suspended:                       *)
(*   none    no such coroutine                                             *)
(*   listen  a handler in receive_text                                     *)
(*   send    in send_personal_message's send_text                          *)
(*   bcast   in broadcast_to_room's loop, i connections done: got are the  *)
(*           ones whose send returned, disc the ones whose send raised     *)
(*   sleep   a timer in asyncio.sleep                                      *)
(* cont names what the coroutine does when it resumes.                     *)
(***************************************************************************)
WsKey(c) == << "ws", c >>
AdminKey(r) == << "admin", r >>
TimerKey(r, t) == << "timer", r, t >>
TaskKeys ==
    {WsKey(c) : c \in Conns} \cup {AdminKey(r) : r \in RoomIds}
        \cup {TimerKey(r, t) : r \in RoomIds, t \in TimerIds}
Kind(k) == k[1]

NoTask ==
    [ pc |-> "none", room |-> "-", name |-> "-", msg |-> "-", cont |-> "-",
      i |-> 0, disc |-> {}, got |-> {}, ev |-> 0, next |-> 0, wake_in |-> 0 ]

\* Player(name=player_name)
Player == [ score |-> StartScore, current_bet |-> 0, wagered_amount |-> 0 ]

\* MessageType.<m> resolves (otherwise the attribute lookup raises AttributeError)
Has(s, m) == m \in s.MessageType

\* list.remove(x): the first occurrence
ListRemove(seq, x) ==
    LET at == {j \in 1..Len(seq) : seq[j] = x}
    IN  IF at = {} THEN seq
        ELSE LET m == CHOOSE j \in at : \A j2 \in at : j <= j2
             IN  SubSeq(seq, 1, m - 1) \o SubSeq(seq, m + 1, Len(seq))

\* an empty dict
EmptyMap == [n \in {} |-> 0]

\* del d[key]
Without(d, key) == [n \in DOMAIN d \ {key} |-> d[n]]

(***************************************************************************)
(* ConnectionManager                                                       *)
(***************************************************************************)
connect(s, ws, r, name) ==
    [s EXCEPT !.active_connections[r] = Append(@, ws),
              !.player_connections[ws] = name]

disconnect(s, ws, r) ==
    [s EXCEPT !.active_connections[r] = ListRemove(@, ws),
              !.player_connections[ws] = "-"]

RECURSIVE DisconnectAll(_, _, _)
DisconnectAll(s, set, r) ==
    IF set = {} THEN s
    ELSE LET ws == CHOOSE x \in set : TRUE
         IN  DisconnectAll(disconnect(s, ws, r), set \ {ws}, r)

(***************************************************************************)
(* GameState: the wagering functions                                       *)
(***************************************************************************)
RECURSIVE SumWagers(_, _)
SumWagers(pl, set) ==
    IF set = {} THEN 0
    ELSE LET n == CHOOSE x \in set : TRUE
         IN  pl[n].wagered_amount + SumWagers(pl, set \ {n})

\* a faulty variant of calculate_wager_amount: the pool is divided among one
\* prompt more than the game has
calculate_wager_amount_one_more(total_events) == WagerPool \div (total_events + 1)

\* GameState.calculate_wager_amount: 200 // total_events
calculate_wager_amount(total_events) == WagerPool \div total_events

\* a faulty variant of calculate_points_distribution: every winner is paid the
\* whole pool instead of an equal share of it
calculate_points_distribution_undivided(bets, pl, correct) ==
    LET present == {n \in DOMAIN bets : n \in DOMAIN pl}
        total_wagered == SumWagers(pl, present)
        correct_players == {n \in present : bets[n] = correct}
    IN  IF correct_players # {} /\ total_wagered > 0
        THEN [n \in DOMAIN bets |->
                 IF n \in correct_players THEN total_wagered ELSE 0]
        ELSE [n \in present |-> pl[n].wagered_amount]

\* bets: current_bets (name -> answer_id), pl: room.players; the result is the
\* results dict (name -> points)
calculate_points_distribution(bets, pl, correct) ==
    LET present == {n \in DOMAIN bets : n \in DOMAIN pl}
        total_wagered == SumWagers(pl, present)
        correct_players == {n \in present : bets[n] = correct}
    IN  IF correct_players # {} /\ total_wagered > 0
        THEN [n \in DOMAIN bets |->
                 IF n \in correct_players
                 THEN total_wagered \div Cardinality(correct_players)
                 ELSE 0]
        ELSE [n \in present |-> pl[n].wagered_amount]

\* a faulty variant of ApplyResults: the wagered amount is left as it was
ApplyResults_wager_kept(pl, results) ==
    [n \in DOMAIN pl |->
        IF n \in DOMAIN results
        THEN [ score |-> pl[n].score + results[n], current_bet |-> 0,
               wagered_amount |-> pl[n].wagered_amount ]
        ELSE [pl[n] EXCEPT !.current_bet = 0]]

\* resolve_event's loop over results, then the reset of every current_bet
ApplyResults(pl, results) ==
    [n \in DOMAIN pl |->
        IF n \in DOMAIN results
        THEN [ score |-> pl[n].score + results[n], current_bet |-> 0,
               wagered_amount |-> 0 ]
        ELSE [pl[n] EXCEPT !.current_bet = 0]]

(***************************************************************************)
(* Control flow of a task                                                  *)
(***************************************************************************)
\* what a task keeps of itself across suspensions
Base(t) == [NoTask EXCEPT !.room = t.room, !.name = t.name, !.ev = t.ev]

\* the coroutine is over
EndTask(s, k) ==
    IF Kind(k) = "ws"
    THEN [s EXCEPT !.tasks[k] = NoTask, !.client_gone[k[2]] = FALSE]
    ELSE [s EXCEPT !.tasks[k] = NoTask]

\* the call chain returns to the task's own code: a handler goes back to
\* receive_text, an admin request and a timer are over
Return(s, k) ==
    IF Kind(k) = "ws"
    THEN [s EXCEPT !.tasks[k] = [Base(@) EXCEPT !.pc = "listen"]]
    ELSE EndTask(s, k)

\* del game_states[room_id].room.players[player_name]
remove_player(s, r, name) ==
    [s EXCEPT !.players[r] = Without(@, name),
              !.score_before_bet[r] = Without(@, name)]

\* websocket_endpoint's "except Exception": the connection is dropped and the
\* player removed, nothing is broadcast
HandlerException(s, k) ==
    LET t == s.tasks[k]
        s1 == disconnect(s, k[2], t.room)
        s2 == IF t.name # host_name /\ t.name \in DOMAIN s1.players[t.room]
              THEN remove_player(s1, t.room, t.name)
              ELSE s1
    IN  EndTask(s2, k)

\* an exception other than CancelledError leaves the coroutine: the handler
\* catches it, start_event_timer and the admin route do not
Raise(s, k) ==
    IF Kind(k) = "ws" THEN HandlerException(s, k) ELSE EndTask(s, k)

\* task.cancel(): a suspended task ends at its suspension point with
\* CancelledError (start_event_timer catches it); the running task itself
\* goes on to its next await
cancel(s, kt, self) ==
    IF kt = self \/ s.tasks[kt].pc = "none" THEN s
    ELSE [s EXCEPT !.tasks[kt] = NoTask]

Sleep(s, k, d, cont) ==
    [s EXCEPT !.tasks[k] =
        [Base(@) EXCEPT !.pc = "sleep", !.wake_in = d, !.cont = cont]]

\* send_personal_message(msg, websocket) of a handler
send_personal_message(s, k, msg, cont) ==
    [s EXCEPT !.tasks[k] =
        [Base(@) EXCEPT !.pc = "send", !.msg = msg, !.cont = cont,
                        !.next = s.tasks[k].next]]

RECURSIVE Continue(_, _, _)

\* broadcast_to_room: with nobody registered there is no await at all
broadcast_to_room(s, k, msg, r, cont) ==
    IF Len(s.active_connections[r]) = 0
    THEN Continue(s, k, cont)
    ELSE [s EXCEPT !.tasks[k] =
            [Base(@) EXCEPT !.pc = "bcast", !.msg = msg, !.cont = cont,
                            !.next = s.tasks[k].next]]

\* a faulty variant of create_timer: a timer that starts its successor is not
\* stopped and goes on to its own resolution phase
create_timer_caller_goes_on(s, k, r, ev) ==
    LET slot == CHOOSE t \in TimerIds :
                    /\ TimerKey(r, t) # k
                    /\ s.tasks[TimerKey(r, t)].pc = "none"
        s2 == [s EXCEPT
                  !.room_timers[r] = slot,
                  !.tasks[TimerKey(r, slot)] =
                      [NoTask EXCEPT !.pc = "sleep", !.room = r, !.ev = ev,
                                     !.wake_in = timer_seconds(ev),
                                     !.cont = "close_betting"]]
    IN  IF Kind(k) = "timer"
        THEN Sleep(s2, k, resolution_delay_seconds(s.tasks[k].ev), "resolve_event")
        ELSE Return(s2, k)

\* lines 223-225 of schedule_next_event
create_timer(s, k, r, ev) ==
    LET s1 == IF s.room_timers[r] # "none"
              THEN cancel(s, TimerKey(r, s.room_timers[r]), k)
              ELSE s
        slot == CHOOSE t \in TimerIds :
                    /\ TimerKey(r, t) # k
                    /\ s1.tasks[TimerKey(r, t)].pc = "none"
        s2 == [s1 EXCEPT
                  !.room_timers[r] = slot,
                  !.tasks[TimerKey(r, slot)] =
                      [NoTask EXCEPT !.pc = "sleep", !.room = r, !.ev = ev,
                                     !.wake_in = timer_seconds(ev),
                                     !.cont = "close_betting"]]
    IN  Return(s2, k)

schedule_next_event(s, k, r) ==
    IF r \notin s.game_states THEN Return(s, k)
    ELSE LET next_event_index == Len(s.completed_events[r]) + 1
         IN  IF next_event_index <= NumEvents
             THEN LET s1 == [s EXCEPT
                        !.DEMO_EVENTS[next_event_index] =
                            [ status |-> "active",
                              expires_at |-> << timer_seconds(next_event_index) >> ],
                        !.current_event[r] = next_event_index,
                        !.tasks[k].next = next_event_index]
                  IN  IF Has(s1, "NEW_EVENT")
                      THEN broadcast_to_room(s1, k, "NEW_EVENT", r, "create_timer")
                      ELSE Raise(s1, k)
             ELSE Return(s, k)

end_game(s, k, r) ==
    IF r \notin s.game_states THEN Return(s, k)
    ELSE LET s1 == [s EXCEPT !.game_status[r] = "completed"]
         IN  IF Has(s1, "GAME_ENDED")
             THEN broadcast_to_room(s1, k, "GAME_ENDED", r, "cleanup")
             ELSE Raise(s1, k)

\* close_betting, and start_event_timer's second sleep after it
close_betting(s, k, r, event_id) ==
    IF \/ r \notin s.game_states
       \/ s.current_event[r] = 0
       \/ s.current_event[r] # event_id
    THEN Sleep(s, k, resolution_delay_seconds(event_id), "resolve_event")
    ELSE IF Has(s, "BETTING_CLOSED")
         THEN broadcast_to_room(s, k, "BETTING_CLOSED", r, "sleep2")
         ELSE Raise(s, k)

\* a faulty variant of resolve_event: the current prompt's id is not compared
\* with the id the timer was started with
resolve_event_any_prompt(s, k, r, event_id) ==
    IF \/ r \notin s.game_states
       \/ s.current_event[r] = 0
    THEN Return(s, k)
    ELSE LET results == calculate_points_distribution(
                            s.current_bets[r], s.players[r],
                            correct_answer_id(event_id))
             s1 == [s EXCEPT
                      !.DEMO_EVENTS[event_id].status = "completed",
                      !.players[r] = ApplyResults(@, results),
                      !.completed_events[r] = Append(@, event_id),
                      !.current_event[r] = 0,
                      !.current_bets[r] = EmptyMap,
                      !.score_before_bet[r] = EmptyMap]
         IN  IF Has(s1, "EVENT_RESOLVED")
             THEN broadcast_to_room(s1, k, "EVENT_RESOLVED", r, "after_resolve")
             ELSE Raise(s1, k)

resolve_event(s, k, r, event_id) ==
    IF \/ r \notin s.game_states
       \/ s.current_event[r] = 0
       \/ s.current_event[r] # event_id
    THEN Return(s, k)
    ELSE LET results == calculate_points_distribution(
                            s.current_bets[r], s.players[r],
                            correct_answer_id(event_id))
             s1 == [s EXCEPT
                      !.DEMO_EVENTS[event_id].status = "completed",
                      !.players[r] = ApplyResults(@, results),
                      !.completed_events[r] = Append(@, event_id),
                      !.current_event[r] = 0,
                      !.current_bets[r] = EmptyMap,
                      !.score_before_bet[r] = EmptyMap]
         IN  IF Has(s1, "EVENT_RESOLVED")
             THEN broadcast_to_room(s1, k, "EVENT_RESOLVED", r, "after_resolve")
             ELSE Raise(s1, k)

\* a faulty variant of game_complete: the game ends one prompt early
game_complete_one_short(s, r) ==
    Len(s.completed_events[r]) >= NumEvents - 1

\* resolve_event's test after the resolved broadcast, lines 186-187
game_complete(s, r) ==
    Len(s.completed_events[r]) >= NumEvents

\* what a task does when the await it was suspended in returns
Continue(s, k, cont) ==
    LET t == s.tasks[k]
        r == t.room
    IN  CASE cont = "return" -> Return(s, k)
          [] cont = "end" -> EndTask(s, k)
          [] cont \in {"join_bcast", "bet_bcast"} ->
                IF Has(s, "ROOM_UPDATE")
                THEN broadcast_to_room(s, k, "ROOM_UPDATE", r, "return")
                ELSE Raise(s, k)
          [] cont = "create_timer" -> create_timer(s, k, r, t.next)
          [] cont = "close_betting" -> close_betting(s, k, r, t.ev)
          [] cont = "sleep2" ->
                Sleep(s, k, resolution_delay_seconds(t.ev), "resolve_event")
          [] cont = "resolve_event" -> resolve_event(s, k, r, t.ev)
          [] cont = "after_resolve" ->
                IF game_complete(s, r)
                THEN end_game(s, k, r)
                ELSE Sleep(s, k, pause_seconds(r), "schedule_next_event")
          [] cont = "schedule_next_event" -> schedule_next_event(s, k, r)
          [] cont = "cleanup" ->
                LET s1 == IF s.room_timers[r] # "none"
                          THEN [cancel(s, TimerKey(r, s.room_timers[r]), k)
                                    EXCEPT !.room_timers[r] = "none"]
                          ELSE s
                IN  Return(s1, k)

(***************************************************************************)
(* websocket_endpoint                                                      *)
(***************************************************************************)
\* the client messages the handler's loop receives
Messages ==
    {[type |-> "place_bet", answer_id |-> a] : a \in AnswerIds}
        \cup {[type |-> "start_game", answer_id |-> 0]}

\* an error message to the caller; the loop goes on
SendError(s, k) ==
    IF Has(s, "ERROR")
    THEN send_personal_message(s, k, "ERROR", "return")
    ELSE Raise(s, k)

\* a faulty variant of AcceptBet: twice the wager is taken off the score
AcceptBet_charged_twice(s, k, r, player_name, answer_id, wager_amount) ==
    LET s1 == [s EXCEPT
                 !.current_bets[r] = (player_name :> answer_id) @@ @,
                 !.players[r][player_name] =
                     [ score |-> @.score - 2 * wager_amount,
                       current_bet |-> answer_id,
                       wagered_amount |-> wager_amount ],
                 !.score_before_bet[r] =
                     IF player_name \in DOMAIN @ THEN @
                     ELSE (player_name :> s.players[r][player_name].score) @@ @]
    IN  IF Has(s1, "BET_PLACED")
        THEN send_personal_message(s1, k, "BET_PLACED", "bet_bcast")
        ELSE Raise(s1, k)

\* the accepted bet, lines 385-402
AcceptBet(s, k, r, player_name, answer_id, wager_amount) ==
    LET s1 == [s EXCEPT
                 !.current_bets[r] = (player_name :> answer_id) @@ @,
                 !.players[r][player_name] =
                     [ score |-> @.score - wager_amount,
                       current_bet |-> answer_id,
                       wagered_amount |-> wager_amount ],
                 !.score_before_bet[r] =
                     IF player_name \in DOMAIN @ THEN @
                     ELSE (player_name :> s.players[r][player_name].score) @@ @]
    IN  IF Has(s1, "BET_PLACED")
        THEN send_personal_message(s1, k, "BET_PLACED", "bet_bcast")
        ELSE Raise(s1, k)

\* the place_bet branch, lines 368-434
place_bet(s, k, answer_id) ==
    LET t == s.tasks[k]
        r == t.room
        event == s.current_event[r]
    IN  IF answer_id # 0 /\ event # 0
        THEN IF s.DEMO_EVENTS[event].status = "active"
             THEN IF /\ s.DEMO_EVENTS[event].expires_at # << >>
                     /\ s.DEMO_EVENTS[event].expires_at[1] >= 0
                  THEN LET wager_amount == calculate_wager_amount(NumEvents)
                       IN  IF t.name \notin DOMAIN s.players[r]
                           THEN Raise(s, k)   \* KeyError
                           ELSE IF s.players[r][t.name].score >= wager_amount
                                THEN AcceptBet(s, k, r, t.name, answer_id,
                                               wager_amount)
                                ELSE SendError(s, k)
                  ELSE SendError(s, k)
             ELSE SendError(s, k)
        ELSE Return(s, k)

\* the start_game branch, lines 437-449
start_game(s, k) ==
    LET r == s.tasks[k].room
        non_host_players == DOMAIN s.players[r] \ {host_name}
    IN  IF s.game_status[r] = "waiting"
        THEN IF non_host_players = {}
             THEN SendError(s, k)
             ELSE schedule_next_event(
                      [s EXCEPT !.game_status[r] = "in_progress"], k, r)
        ELSE Return(s, k)

\* one turn of the "while True" loop on message m: the conditions of the
\* if/elif chain are evaluated in order, each looking its member up
receive(s, k, m) ==
    IF ~Has(s, "PLACE_BET") THEN Raise(s, k)
    ELSE IF m.type = "place_bet" THEN place_bet(s, k, m.answer_id)
    ELSE IF ~Has(s, "START_GAME") THEN Raise(s, k)
    ELSE IF m.type = "start_game" /\ s.tasks[k].name = host_name
         THEN start_game(s, k)
         ELSE Return(s, k)

\* a faulty variant of join: the host is given a player record like anyone
join_host_as_player(s, c, r, player_name) ==
    LET k == WsKey(c)
        s1 == IF player_name \notin DOMAIN s.players[r]
              THEN [s EXCEPT !.players[r] = (player_name :> Player) @@ @]
              ELSE s
        s2 == connect(s1, c, r, player_name)
        s3 == [s2 EXCEPT !.tasks[k] =
                  [NoTask EXCEPT !.room = r, !.name = player_name]]
    IN  IF Has(s3, "ROOM_UPDATE")
        THEN send_personal_message(s3, k, "ROOM_UPDATE", "join_bcast")
        ELSE Raise(s3, k)

\* a faulty variant of join: a player record is made for every joining
\* player, also when the name has one
join_fresh_record(s, c, r, player_name) ==
    LET k == WsKey(c)
        is_host == player_name = host_name
        s1 == IF ~is_host
              THEN [s EXCEPT !.players[r] =
                      [n \in DOMAIN @ \cup {player_name} |->
                          IF n = player_name THEN Player ELSE @[n]]]
              ELSE s
        s2 == connect(s1, c, r, player_name)
        s3 == [s2 EXCEPT !.tasks[k] =
                  [NoTask EXCEPT !.room = r, !.name = player_name]]
    IN  IF Has(s3, "ROOM_UPDATE")
        THEN send_personal_message(s3, k, "ROOM_UPDATE", "join_bcast")
        ELSE Raise(s3, k)

\* the handshake: accept, the join_room message, lines 318-347
join(s, c, r, player_name) ==
    LET k == WsKey(c)
        is_host == player_name = host_name
        s1 == IF ~is_host /\ player_name \notin DOMAIN s.players[r]
              THEN [s EXCEPT !.players[r] = (player_name :> Player) @@ @]
              ELSE s
        s2 == connect(s1, c, r, player_name)
        s3 == [s2 EXCEPT !.tasks[k] =
                  [NoTask EXCEPT !.room = r, !.name = player_name]]
    IN  IF Has(s3, "ROOM_UPDATE")
        THEN send_personal_message(s3, k, "ROOM_UPDATE", "join_bcast")
        ELSE Raise(s3, k)

\* "except WebSocketDisconnect", lines 451-467
on_disconnect(s, k) ==
    LET t == s.tasks[k]
        r == t.room
        s1 == disconnect(s, k[2], r)
    IN  IF t.name # host_name /\ t.name \in DOMAIN s1.players[r]
        THEN LET s2 == remove_player(s1, r, t.name)
             IN  IF Has(s2, "ROOM_UPDATE")
                 THEN broadcast_to_room(s2, k, "ROOM_UPDATE", r, "end")
                 ELSE EndTask(s2, k)
        ELSE EndTask(s1, k)

\* start_demo_game, lines 478-490
start_demo_game(s, r) ==
    schedule_next_event([s EXCEPT !.game_status[r] = "in_progress",
                                  !.tasks[AdminKey(r)].room = r],
                        AdminKey(r), r)

\* one turn of broadcast_to_room's loop, or its end: the pruning of the
\* connections whose send raised, then the caller goes on
broadcast_step(s, k) ==
    LET t == s.tasks[k]
        conns == s.active_connections[t.room]
    IN  IF t.i < Len(conns)
        THEN LET connection == conns[t.i + 1]
             IN  [s EXCEPT !.tasks[k].i = @ + 1,
                           !.tasks[k].disc =
                               IF s.client_gone[connection]
                               THEN @ \cup {connection} ELSE @,
                           !.tasks[k].got =
                               IF s.client_gone[connection]
                               THEN @ ELSE @ \cup {connection}]
        ELSE Continue(DisconnectAll(s, t.disc, t.room), k, t.cont)

\* the loop run to its end with no further send yielding to the event loop
RECURSIVE broadcast_rest(_, _)
broadcast_rest(s, k) ==
    IF s.tasks[k].pc = "bcast" /\ s.tasks[k].i < Len(s.active_connections[s.tasks[k].room])
    THEN broadcast_rest(broadcast_step(s, k), k)
    ELSE broadcast_step(s, k)

\* a tick of the clock
tick(s) ==
    [s EXCEPT
        !.DEMO_EVENTS =
            [e \in DOMAIN @ |->
                IF @[e].expires_at # << >> /\ @[e].expires_at[1] >= 0
                THEN [@[e] EXCEPT !.expires_at = << @[1] - 1 >>]
                ELSE @[e]],
        !.tasks =
            [k \in DOMAIN @ |->
                IF @[k].pc = "sleep" /\ @[k].wake_in >= 0
                THEN [@[k] EXCEPT !.wake_in = @ - 1]
                ELSE @[k]]]

(***************************************************************************)
(* Actions                                                                 *)
(***************************************************************************)
\* a client opens a websocket to an existing room and sends join_room; the
\* new websocket is the first unused one (their identities are arbitrary)
Join(c, r, n) ==
    /\ tasks[WsKey(c)].pc = "none"
    /\ \A c2 \in Conns : c2 < c => tasks[WsKey(c2)].pc # "none"
    /\ r \in game_states
    /\ Becomes(join(State, c, r, n))

\* the handler receives a message
Receive(c, m) ==
    /\ tasks[WsKey(c)].pc = "listen"
    /\ ~client_gone[c]
    /\ Becomes(receive(State, WsKey(c), m))

\* the peer of a websocket goes away
ClientDrop(c) ==
    /\ tasks[WsKey(c)].pc # "none"
    /\ ~client_gone[c]
    /\ client_gone' = [client_gone EXCEPT ![c] = TRUE]
    /\ UNCHANGED << MessageType, DEMO_EVENTS, game_states, game_status, players,
                    current_event, completed_events, current_bets,
                    active_connections, player_connections, room_timers, tasks,
                    score_before_bet >>

\* receive_text raises WebSocketDisconnect
Disconnect(c) ==
    /\ tasks[WsKey(c)].pc = "listen"
    /\ Becomes(on_disconnect(State, WsKey(c)))

\* a personal send returns (delivered, or its failure swallowed)
SendDone(k) ==
    /\ tasks[k].pc = "send"
    /\ Becomes(Continue(State, k, tasks[k].cont))

\* a broadcast goes on by one connection
BroadcastStep(k) ==
    /\ tasks[k].pc = "bcast"
    /\ Becomes(broadcast_step(State, k))

\* a broadcast suspended in a send goes on to its end
Broadcast(k) ==
    /\ tasks[k].pc = "bcast"
    /\ Becomes(broadcast_rest(State, k))

\* POST /admin/start-demo/{room_id}
AdminStart(r) ==
    /\ r \in game_states
    /\ tasks[AdminKey(r)].pc = "none"
    /\ game_status[r] = "waiting"
    /\ Becomes(start_demo_game(State, r))

\* a timer's sleep returns
TimerWake(k) ==
    /\ tasks[k].pc = "sleep"
    /\ tasks[k].wake_in < 0
    /\ Becomes(Continue(State, k, tasks[k].cont))

Tick ==
    /\ tick(State) # State
    /\ Becomes(tick(State))

\* The steps of the engine.  A broadcast is suspended once: its sends change
\* nothing but the loop's own position unless a peer has gone or the list
\* changes under the loop, which NextFine adds.
Next ==
    \/ \E c \in Conns, r \in RoomIds, n \in Names : Join(c, r, n)
    \/ \E c \in Conns, m \in Messages : Receive(c, m)
    \/ \E c \in Conns : Disconnect(c)
    \/ \E k \in TaskKeys : SendDone(k)
    \/ \E k \in TaskKeys : Broadcast(k)
    \/ \E r \in RoomIds : AdminStart(r)
    \/ \E k \in TaskKeys : TimerWake(k)
    \/ Tick

\* the same with every send of a broadcast a suspension and with peers that
\* go away before their handler notices
NextFine ==
    \/ \E c \in Conns, r \in RoomIds, n \in Names : Join(c, r, n)
    \/ \E c \in Conns, m \in Messages : Receive(c, m)
    \/ \E c \in Conns : ClientDrop(c)
    \/ \E c \in Conns : Disconnect(c)
    \/ \E k \in TaskKeys : SendDone(k)
    \/ \E k \in TaskKeys : BroadcastStep(k)
    \/ \E r \in RoomIds : AdminStart(r)
    \/ \E k \in TaskKeys : TimerWake(k)
    \/ Tick

\* no broadcast is in progress
Quiet == \A k \in TaskKeys : tasks[k].pc # "bcast"

\* NextFine with the clients leaving a broadcast alone: no client joins, sends
\* a message or is found gone by its handler while a broadcast is in progress,
\* so that the registry changes under a broadcast's loop only by the pruning
\* of connections whose send has raised
NextSendFailure ==
    \/ \E c \in Conns, r \in RoomIds, n \in Names : Quiet /\ Join(c, r, n)
    \/ \E c \in Conns, m \in Messages : Quiet /\ Receive(c, m)
    \/ \E c \in Conns : ClientDrop(c)
    \/ \E c \in Conns : Quiet /\ Disconnect(c)
    \/ \E k \in TaskKeys : SendDone(k)
    \/ \E k \in TaskKeys : BroadcastStep(k)
    \/ \E r \in RoomIds : AdminStart(r)
    \/ \E k \in TaskKeys : TimerWake(k)
    \/ Tick

\* the state after create_room has made room r1
InitRooms ==
    /\ DEMO_EVENTS = [e \in EventIds |-> [status |-> "pending", expires_at |-> << >>]]
    /\ game_states = {"r1"}
    /\ game_status = [r \in RoomIds |-> "waiting"]
    /\ players = [r \in RoomIds |-> EmptyMap]
    /\ current_event = [r \in RoomIds |-> 0]
    /\ completed_events = [r \in RoomIds |-> << >>]
    /\ current_bets = [r \in RoomIds |-> EmptyMap]
    /\ active_connections = [r \in RoomIds |-> << >>]
    /\ player_connections = [c \in Conns |-> "-"]
    /\ room_timers = [r \in RoomIds |-> "none"]
    /\ tasks = [k \in TaskKeys |-> NoTask]
    /\ client_gone = [c \in Conns |-> FALSE]
    /\ score_before_bet = [r \in RoomIds |-> EmptyMap]

\* the program as it is in src/backend
Init == MessageType = MessageTypeMembers /\ InitRooms

\* the same program with the members main.py refers to declared
InitDeclared == MessageType = MessageTypeMembers \cup ReferencedOnly /\ InitRooms

Spec == Init /\ [][Next]_vars

SpecDeclared == InitDeclared /\ [][Next]_vars
SpecSendFailure == Init /\ [][NextSendFailure]_vars

\* The event loop runs every task that is ready: a sleep that has elapsed
\* returns, a send that can complete completes, and time passes.  What the
\* clients do (join, send a message, leave) and when the admin route is
\* called is under no obligation.
Fairness ==
    /\ \A k \in TaskKeys : WF_vars(TimerWake(k))
    /\ \A k \in TaskKeys : WF_vars(SendDone(k))
    /\ \A k \in TaskKeys : WF_vars(Broadcast(k))
    /\ WF_vars(Tick)

\* the program as it is in src/backend, fairly scheduled
SpecLive == Init /\ [][Next]_vars /\ Fairness

\* Next without Disconnect: the clients that have joined stay to the end
NextStay ==
    \/ \E c \in Conns, r \in RoomIds, n \in Names : Join(c, r, n)
    \/ \E c \in Conns, m \in Messages : Receive(c, m)
    \/ \E k \in TaskKeys : SendDone(k)
    \/ \E k \in TaskKeys : Broadcast(k)
    \/ \E r \in RoomIds : AdminStart(r)
    \/ \E k \in TaskKeys : TimerWake(k)
    \/ Tick

\* the program with the referenced members declared, no client leaving
SpecStay == InitDeclared /\ [][NextStay]_vars

(***************************************************************************)
(* The timer callbacks on any room state.  close_betting and resolve_event *)
(* re-read the room when they run; here they find every room state within  *)
(* the bounds: the room present or not, any current prompt, any players,   *)
(* any bets (also of names that have no player record), and one websocket  *)
(* (the host's) registered to receive what is broadcast.                   *)
(***************************************************************************)
PlayerNames == {"alice", "bob", "carol"}

RECURSIVE Upto(_)
Upto(n) == IF n <= 0 THEN << >> ELSE Append(Upto(n - 1), n)

InitTimer ==
    \E exists \in BOOLEAN, cur \in 0..NumEvents, ev \in EventIds,
       cont \in {"close_betting", "resolve_event"},
       present \in SUBSET PlayerNames, bettors \in SUBSET PlayerNames :
      \E wagered \in [present -> {0, calculate_wager_amount(NumEvents)}],
         answer \in [bettors -> AnswerIds] :
        /\ MessageType = MessageTypeMembers
        /\ DEMO_EVENTS =
              [e \in EventIds |->
                  IF e > cur /\ e # ev
                  THEN [status |-> "pending", expires_at |-> << >>]
                  ELSE [status |-> IF e < cur THEN "completed" ELSE "active",
                        expires_at |-> << -1 >>]]
        /\ game_states = IF exists THEN {"r1"} ELSE {}
        /\ game_status = [r \in RoomIds |-> IF r = "r1" THEN "in_progress" ELSE "waiting"]
        /\ players =
              [r \in RoomIds |->
                  IF r = "r1"
                  THEN [n \in present |->
                           [ score |-> StartScore - wagered[n],
                             current_bet |-> IF n \in bettors THEN answer[n] ELSE 0,
                             wagered_amount |-> wagered[n] ]]
                  ELSE EmptyMap]
        /\ current_event = [r \in RoomIds |-> IF r = "r1" THEN cur ELSE 0]
        /\ completed_events = [r \in RoomIds |-> IF r = "r1" THEN Upto(cur - 1) ELSE << >>]
        /\ current_bets = [r \in RoomIds |-> IF r = "r1" THEN answer ELSE EmptyMap]
        /\ active_connections = [r \in RoomIds |-> IF r = "r1" THEN << 1 >> ELSE << >>]
        /\ player_connections = [c \in Conns |-> IF c = 1 THEN host_name ELSE "-"]
        /\ room_timers = [r \in RoomIds |-> IF r = "r1" THEN "t1" ELSE "none"]
        /\ tasks =
              [k \in TaskKeys |->
                  IF k = TimerKey("r1", "t1")
                  THEN [NoTask EXCEPT !.pc = "sleep", !.room = "r1", !.ev = ev,
                                      !.wake_in = -1, !.cont = cont]
                  ELSE IF k = WsKey(1)
                  THEN [NoTask EXCEPT !.pc = "listen", !.room = "r1",
                                      !.name = host_name]
                  ELSE NoTask]
        /\ client_gone = [c \in Conns |-> FALSE]
        /\ score_before_bet = [r \in RoomIds |-> EmptyMap]

NextTimer ==
    \/ \E k \in TaskKeys : TimerWake(k)
    \/ \E k \in TaskKeys : Broadcast(k)
    \/ Tick

SpecTimer == InitTimer /\ [][NextTimer]_vars

(***************************************************************************)
(* A recipient that stops reading.  websocket.send_text to it is awaited   *)
(* and never returns (nor raises): the task that awaits it stays in that   *)
(* turn of broadcast_to_room's loop.  The room is drawn in the middle of a *)
(* game, members declared, with a prompt current and its timer in either   *)
(* sleep; its registry holds the healthy websocket 2 ("alice") alone, or   *)
(* with the hung websocket 1 (the host's) before or after it.              *)
(***************************************************************************)
HungConn == 1

\* the task is suspended in the send to the hung connection
SendsToHung(k) ==
    /\ tasks[k].pc = "bcast"
    /\ tasks[k].i < Len(active_connections[tasks[k].room])
    /\ active_connections[tasks[k].room][tasks[k].i + 1] = HungConn

\* a send of a broadcast returns, or its loop ends
SendReturns(k) == ~SendsToHung(k) /\ BroadcastStep(k)

InitHung ==
    \E cur \in EventIds, cont \in {"close_betting", "resolve_event"},
       registry \in {<< 2 >>, << HungConn, 2 >>, << 2, HungConn >>},
       bet \in {-1, 0} \cup AnswerIds :   \* -1: alice has no record, 0: no bet
        /\ MessageType = MessageTypeMembers \cup ReferencedOnly
        /\ DEMO_EVENTS =
              [e \in EventIds |->
                  IF e > cur
                  THEN [status |-> "pending", expires_at |-> << >>]
                  ELSE [status |-> IF e < cur THEN "completed" ELSE "active",
                        expires_at |-> << -1 >>]]
        /\ game_states = {"r1"}
        /\ game_status = [r \in RoomIds |-> IF r = "r1" THEN "in_progress" ELSE "waiting"]
        /\ players =
              [r \in RoomIds |->
                  IF r = "r1" /\ bet # -1
                  THEN [n \in {"alice"} |->
                           IF bet = 0 THEN Player
                           ELSE [ score |-> StartScore - calculate_wager_amount(NumEvents),
                                  current_bet |-> bet,
                                  wagered_amount |-> calculate_wager_amount(NumEvents) ]]
                  ELSE EmptyMap]
        /\ current_event = [r \in RoomIds |-> IF r = "r1" THEN cur ELSE 0]
        /\ completed_events = [r \in RoomIds |-> IF r = "r1" THEN Upto(cur - 1) ELSE << >>]
        /\ current_bets =
              [r \in RoomIds |->
                  IF r = "r1" /\ bet \in AnswerIds
                  THEN [n \in {"alice"} |-> bet] ELSE EmptyMap]
        /\ active_connections = [r \in RoomIds |-> IF r = "r1" THEN registry ELSE << >>]
        /\ player_connections =
              [c \in Conns |->
                  IF c = 2 THEN "alice"
                  ELSE IF c = HungConn /\ Len(registry) = 2 THEN host_name ELSE "-"]
        /\ room_timers = [r \in RoomIds |-> IF r = "r1" THEN "t1" ELSE "none"]
        /\ tasks =
              [k \in TaskKeys |->
                  IF k = TimerKey("r1", "t1")
                  THEN [NoTask EXCEPT !.pc = "sleep", !.room = "r1", !.ev = cur,
                                      !.wake_in = -1, !.cont = cont]
                  ELSE IF k = WsKey(2)
                  THEN [NoTask EXCEPT !.pc = "listen", !.room = "r1",
                                      !.name = "alice"]
                  ELSE IF k = WsKey(HungConn) /\ Len(registry) = 2
                  THEN [NoTask EXCEPT !.pc = "listen", !.room = "r1",
                                      !.name = host_name]
                  ELSE NoTask]
        /\ client_gone = [c \in Conns |-> FALSE]
        /\ score_before_bet = [r \in RoomIds |-> EmptyMap]

NextHung ==
    \/ \E k \in TaskKeys : TimerWake(k)
    \/ \E k \in TaskKeys : SendReturns(k)
    \/ Tick

\* every sleep that has elapsed returns, every send but those to the hung
\* connection returns, time passes
SpecHung ==
    /\ InitHung
    /\ [][NextHung]_vars
    /\ \A k \in TaskKeys : WF_vars(TimerWake(k))
    /\ \A k \in TaskKeys : WF_vars(SendReturns(k))
    /\ WF_vars(Tick)

(***************************************************************************)
(* Two rooms.  create_room has been called twice; the engine gives every   *)
(* room the prompts of the same game (get_events_for_game returns a copy   *)
(* of the list DEMO_EVENTS, whose Event objects are the same objects for   *)
(* every room).                                                            *)
(***************************************************************************)
InitTwoRooms ==
    /\ DEMO_EVENTS = [e \in EventIds |-> [status |-> "pending", expires_at |-> << >>]]
    /\ game_states = RoomIds
    /\ game_status = [r \in RoomIds |-> "waiting"]
    /\ players = [r \in RoomIds |-> EmptyMap]
    /\ current_event = [r \in RoomIds |-> 0]
    /\ completed_events = [r \in RoomIds |-> << >>]
    /\ current_bets = [r \in RoomIds |-> EmptyMap]
    /\ active_connections = [r \in RoomIds |-> << >>]
    /\ player_connections = [c \in Conns |-> "-"]
    /\ room_timers = [r \in RoomIds |-> "none"]
    /\ tasks = [k \in TaskKeys |-> NoTask]
    /\ client_gone = [c \in Conns |-> FALSE]
    /\ score_before_bet = [r \in RoomIds |-> EmptyMap]

\* the program as it is in src/backend, two rooms
InitRoomsShipped == MessageType = MessageTypeMembers /\ InitTwoRooms

SpecRooms == InitRoomsShipped /\ [][Next]_vars

\* the games of two rooms that nobody has joined
NextGames ==
    \/ \E r \in RoomIds : AdminStart(r)
    \/ \E k \in TaskKeys : TimerWake(k)
    \/ Tick

\* the same with the members main.py refers to declared
InitRoomsDeclared ==
    MessageType = MessageTypeMembers \cup ReferencedOnly /\ InitTwoRooms

SpecRoomsDeclared == InitRoomsDeclared /\ [][NextGames]_vars

(***************************************************************************)
(* Two clients in room r1 and nobody else to come: the room as it is when  *)
(* two websockets have joined under any two names, in either order, the    *)
(* second handler still in the personal send of its handshake or already   *)
(* in its receive loop.  From there on no websocket is opened, so that a   *)
(* websocket registered at the end of a broadcast has been registered all  *)
(* through it.  Every send of a broadcast is a suspension.                 *)
(***************************************************************************)
InitJoined ==
    \E first \in Conns, n1 \in Names, n2 \in Names, second_listens \in BOOLEAN :
      LET second == CHOOSE c \in {1, 2} : c # first
          name == [c \in Conns |-> IF c = first THEN n1
                                   ELSE IF c = second THEN n2 ELSE "-"]
      IN
        /\ first \in {1, 2}
        /\ MessageType = MessageTypeMembers
        /\ DEMO_EVENTS = [e \in EventIds |-> [status |-> "pending", expires_at |-> << >>]]
        /\ game_states = {"r1"}
        /\ game_status = [r \in RoomIds |-> "waiting"]
        /\ players =
              [r \in RoomIds |->
                  IF r = "r1"
                  THEN [n \in {n1, n2} \ {host_name} |-> Player]
                  ELSE EmptyMap]
        /\ current_event = [r \in RoomIds |-> 0]
        /\ completed_events = [r \in RoomIds |-> << >>]
        /\ current_bets = [r \in RoomIds |-> EmptyMap]
        /\ active_connections =
              [r \in RoomIds |-> IF r = "r1" THEN << first, second >> ELSE << >>]
        /\ player_connections = name
        /\ room_timers = [r \in RoomIds |-> "none"]
        /\ tasks =
              [k \in TaskKeys |->
                  IF k = WsKey(first)
                  THEN [NoTask EXCEPT !.pc = "listen", !.room = "r1", !.name = n1]
                  ELSE IF k = WsKey(second)
                  THEN IF second_listens
                       THEN [NoTask EXCEPT !.pc = "listen", !.room = "r1", !.name = n2]
                       ELSE [NoTask EXCEPT !.pc = "send", !.room = "r1", !.name = n2,
                                           !.msg = "ROOM_UPDATE", !.cont = "join_bcast"]
                  ELSE NoTask]
        /\ client_gone = [c \in Conns |-> FALSE]
        /\ score_before_bet = [r \in RoomIds |-> EmptyMap]

\* NextFine without Join
NextJoined ==
    \/ \E c \in Conns, m \in Messages : Receive(c, m)
    \/ \E c \in Conns : ClientDrop(c)
    \/ \E c \in Conns : Disconnect(c)
    \/ \E k \in TaskKeys : SendDone(k)
    \/ \E k \in TaskKeys : BroadcastStep(k)
    \/ \E r \in RoomIds : AdminStart(r)
    \/ \E k \in TaskKeys : TimerWake(k)
    \/ Tick

SpecJoined == InitJoined /\ [][NextJoined]_vars

(***************************************************************************)
(* Two rooms and one bettor.  The members main.py refers to are declared;  *)
(* create_room has been called twice and "alice" has joined room r1 on     *)
(* websocket 1 and stays; nobody else joins.  The games of both rooms are  *)
(* started by the admin route.                                             *)
(***************************************************************************)
InitBettor ==
    /\ MessageType = MessageTypeMembers \cup ReferencedOnly
    /\ DEMO_EVENTS = [e \in EventIds |-> [status |-> "pending", expires_at |-> << >>]]
    /\ game_states = RoomIds
    /\ game_status = [r \in RoomIds |-> "waiting"]
    /\ players = [r \in RoomIds |-> IF r = "r1" THEN [n \in {"alice"} |-> Player]
                                    ELSE EmptyMap]
    /\ current_event = [r \in RoomIds |-> 0]
    /\ completed_events = [r \in RoomIds |-> << >>]
    /\ current_bets = [r \in RoomIds |-> EmptyMap]
    /\ active_connections = [r \in RoomIds |-> IF r = "r1" THEN << 1 >> ELSE << >>]
    /\ player_connections = [c \in Conns |-> IF c = 1 THEN "alice" ELSE "-"]
    /\ room_timers = [r \in RoomIds |-> "none"]
    /\ tasks = [k \in TaskKeys |->
                  IF k = WsKey(1)
                  THEN [NoTask EXCEPT !.pc = "listen", !.room = "r1", !.name = "alice"]
                  ELSE NoTask]
    /\ client_gone = [c \in Conns |-> FALSE]
    /\ score_before_bet = [r \in RoomIds |-> EmptyMap]

NextBettor ==
    \/ \E c \in Conns, m \in Messages : Receive(c, m)
    \/ \E k \in TaskKeys : SendDone(k)
    \/ \E k \in TaskKeys : Broadcast(k)
    \/ \E r \in RoomIds : AdminStart(r)
    \/ \E k \in TaskKeys : TimerWake(k)
    \/ Tick

SpecBettor == InitBettor /\ [][NextBettor]_vars

(***************************************************************************)
(* Properties                                                              *)
(***************************************************************************)
RECURSIVE SumStakes(_, _)
SumStakes(pl, set) ==
    IF set = {} THEN 0
    ELSE LET n == CHOOSE x \in set : TRUE
         IN  pl[n].score + pl[n].wagered_amount + SumStakes(pl, set \ {n})

\* the sum over all players of score + wagered_amount
Total(pl) == SumStakes(pl, DOMAIN pl)

\* the handler of websocket c belongs to a player with a record in the room
IsPlayer(c) ==
    /\ tasks[WsKey(c)].name # host_name
    /\ tasks[WsKey(c)].name \in DOMAIN players[tasks[WsKey(c)].room]

\* the room of websocket c has a current prompt whose expiry has passed
PastExpiry(c) ==
    LET event == current_event[tasks[WsKey(c)].room]
    IN  /\ event # 0
        /\ DEMO_EVENTS[event].expires_at # << >>
        /\ DEMO_EVENTS[event].expires_at[1] < 0

\* a bet of the player behind websocket c is to be accepted
BetOpen(c) ==
    LET t == tasks[WsKey(c)]
        event == current_event[t.room]
    IN  /\ event # 0
        /\ DEMO_EVENTS[event].status = "active"
        /\ DEMO_EVENTS[event].expires_at # << >>
        /\ DEMO_EVENTS[event].expires_at[1] >= 0
        /\ players[t.room][t.name].score >= calculate_wager_amount(NumEvents)

\* the handler of websocket c is sending an error message to its client
ErrorSent(c) ==
    /\ tasks'[WsKey(c)].pc = "send"
    /\ tasks'[WsKey(c)].msg = "ERROR"

\* websocket c is registered for room r after the step
StaysOpen(c, r) ==
    \E j \in 1..Len(active_connections'[r]) : active_connections'[r][j] = c

C2_LateBetRejected ==
    [][\A c \in Conns, m \in Messages :
          ( /\ Receive(c, m)
            /\ m.type = "place_bet"
            /\ IsPlayer(c)
            /\ PastExpiry(c) )
          => LET t == tasks[WsKey(c)]
             IN  /\ ErrorSent(c)
                 /\ current_bets' = current_bets
                 /\ t.name \in DOMAIN players'[t.room]
                 /\ players'[t.room][t.name] = players[t.room][t.name]]_vars

\* a timer task of the room that is alive
TimerAlive(r, t) == tasks[TimerKey(r, t)].pc # "none"

\* the task is the one broadcasting message msg
Broadcasting(task, msg) == task.pc = "bcast" /\ task.msg = msg

C3_State ==
    \A r \in RoomIds :
        /\ game_status[r] = "completed" =>
              /\ Len(completed_events[r]) = NumEvents
              /\ \A t \in TimerIds :
                    TimerAlive(r, t) =>
                        /\ Broadcasting(tasks[TimerKey(r, t)], "GAME_ENDED")
                        /\ room_timers[r] = t
              /\ room_timers[r] = "none" => \A t \in TimerIds : ~TimerAlive(r, t)
        /\ Len(completed_events[r]) = NumEvents =>
              \/ game_status[r] = "completed"
              \/ \E t \in TimerIds :
                    Broadcasting(tasks[TimerKey(r, t)], "EVENT_RESOLVED")

C3_Step ==
    \A r \in RoomIds :
        /\ \/ completed_events'[r] = completed_events[r]
           \/ /\ Len(completed_events'[r]) = Len(completed_events[r]) + 1
              /\ SubSeq(completed_events'[r], 1, Len(completed_events[r]))
                    = completed_events[r]
        /\ game_status[r] = "completed" => game_status'[r] = "completed"

CanStillFire(task) ==
    /\ task.pc # "none"
    /\ task.cont \in {"close_betting", "sleep2", "resolve_event"}

C4_State ==
    \A r \in RoomIds :
        /\ Cardinality({t \in TimerIds : CanStillFire(tasks[TimerKey(r, t)])}) <= 1
        /\ \A t \in TimerIds :
              CanStillFire(tasks[TimerKey(r, t)]) => room_timers[r] = t

C4_Step ==
    \A r \in RoomIds :
        (room_timers[r] # "none" /\ room_timers'[r] # room_timers[r])
        => ~CanStillFire(tasks'[TimerKey(r, room_timers[r])])

\* C4: at most one timer process of a room has a close-betting or a resolve
\* ahead of it, and it is the one the room holds; when the room takes a new
\* timer or drops its timer, the previous one has none ahead of it any more.
C4_OneTimerPerRoom == []C4_State /\ [][C4_Step]_vars

\* the second prompt's timer has been started after the first one's resolved
C4_Witness ==
    /\ completed_events["r1"] = << 1 >>
    /\ \E t \in TimerIds :
          /\ room_timers["r1"] = t
          /\ tasks[TimerKey("r1", t)].pc = "sleep"
          /\ tasks[TimerKey("r1", t)].ev = 2
          /\ tasks[TimerKey("r1", t)].cont = "close_betting"

\* the prompt timer task k was started for is not the room's current prompt
Superseded(k) ==
    \/ tasks[k].room \notin game_states
    \/ current_event[tasks[k].room] = 0
    \/ current_event[tasks[k].room] # tasks[k].ev

\* timer task k wakes up into close_betting or resolve_event
CallbackRuns(k) ==
    /\ TimerWake(k)
    /\ tasks[k].cont \in {"close_betting", "resolve_event"}

\* C5: close_betting or resolve_event running for a room that is gone, that
\* has no current prompt, or whose current prompt is another one than the
\* timer's, changes no score, wager, bet, completed prompt, status, prompt or
\* registration of any room, and starts no broadcast.
C5_SupersededCallbackIsNoOp ==
    [][\A k \in TaskKeys :
          (CallbackRuns(k) /\ Superseded(k))
          => /\ UNCHANGED << players, current_bets, completed_events,
                             game_status, current_event, DEMO_EVENTS,
                             game_states, active_connections, room_timers >>
             /\ tasks'[k].pc # "bcast"]_vars

\* close_betting has found its prompt superseded and the timer is in its
\* resolution delay, with resolve_event about to find the same
C5_Witness ==
    \E k \in TaskKeys :
        /\ tasks[k].pc = "sleep"
        /\ tasks[k].cont = "resolve_event"
        /\ tasks[k].wake_in = resolution_delay_seconds(tasks[k].ev)
        /\ Superseded(k)
        /\ current_bets["r1"] # EmptyMap

\* timer task k wakes up into resolve_event for the room's current prompt
Resolves(k) ==
    /\ TimerWake(k)
    /\ tasks[k].cont = "resolve_event"
    /\ ~Superseded(k)

\* the bettors whose answer is the correct one of prompt ev
CorrectAmong(bettors, bets, ev) ==
    {n \in bettors : bets[n] = correct_answer_id(ev)}

C8_ValidBetSucceeds ==
    [][\A c \in Conns, m \in Messages :
          ( /\ Receive(c, m)
            /\ m.type = "place_bet"
            /\ IsPlayer(c)
            /\ BetOpen(c) )
          => LET t == tasks[WsKey(c)]
                 r == t.room
             IN  /\ t.name \in DOMAIN current_bets'[r]
                 /\ current_bets'[r][t.name] = m.answer_id
                 /\ t.name \in DOMAIN players'[r]
                 /\ players'[r][t.name].score
                       = players[r][t.name].score - calculate_wager_amount(NumEvents)
                 /\ tasks'[WsKey(c)].pc = "send"
                 /\ tasks'[WsKey(c)].msg = "BET_PLACED"
                 /\ tasks'[WsKey(c)].cont = "bet_bcast"
                 /\ StaysOpen(c, r)]_vars

\* C9: a place_bet of a player with a record that is not to be accepted (no
\* current prompt, prompt not active, past expiry, or score below the wager)
\* leaves the handler sending an error message, changes no player record and
\* no bet, and leaves the websocket registered.
C9_RejectedBetGetsError ==
    [][\A c \in Conns, m \in Messages :
          ( /\ Receive(c, m)
            /\ m.type = "place_bet"
            /\ IsPlayer(c)
            /\ ~BetOpen(c) )
          => /\ ErrorSent(c)
             /\ players' = players
             /\ current_bets' = current_bets
             /\ StaysOpen(c, tasks[WsKey(c)].room)]_vars

\* C10: a start_game of the host in a waiting room with a player makes the
\* room in progress with the first prompt active and current, its new-prompt
\* broadcast under way and the timer's start next; with no player the host
\* is sent an error message and the room stays waiting with no current prompt
\* and no timer; either way the host's websocket stays registered.
C10_HostStartsGame ==
    [][\A c \in Conns, m \in Messages :
          ( /\ Receive(c, m)
            /\ m.type = "start_game"
            /\ tasks[WsKey(c)].name = host_name
            /\ game_status[tasks[WsKey(c)].room] = "waiting" )
          => LET r == tasks[WsKey(c)].room
             IN  /\ StaysOpen(c, r)
                 /\ IF DOMAIN players[r] \ {host_name} # {}
                    THEN /\ game_status'[r] = "in_progress"
                         /\ current_event'[r] = 1
                         /\ DEMO_EVENTS'[1].status = "active"
                         /\ tasks'[WsKey(c)].pc = "bcast"
                         /\ tasks'[WsKey(c)].msg = "NEW_EVENT"
                         /\ tasks'[WsKey(c)].cont = "create_timer"
                    ELSE /\ ErrorSent(c)
                         /\ game_status'[r] = "waiting"
                         /\ current_event'[r] = 0
                         /\ room_timers'[r] = "none"]_vars

\* C11: a start_game of a client that is not the host, or of the host in a
\* room that is not waiting any more, leaves the handler sending an error
\* message, changes no player, status, prompt or bet, and leaves the websocket
\* registered.
C11_IneffectiveStartGetsError ==
    [][\A c \in Conns, m \in Messages :
          ( /\ Receive(c, m)
            /\ m.type = "start_game"
            /\ \/ tasks[WsKey(c)].name # host_name
               \/ game_status[tasks[WsKey(c)].room] # "waiting" )
          => /\ ErrorSent(c)
             /\ UNCHANGED << players, game_status, current_event, current_bets,
                             completed_events, DEMO_EVENTS, room_timers >>
             /\ StaysOpen(c, tasks[WsKey(c)].room)]_vars

\* C12: a join under a name that has a player record leaves every player
\* record of the room as it was (one record for the name, its score, answer
\* and wagered amount unchanged), registers the websocket and leaves the
\* handler sending the room-update, as for any join.
C12_RejoinKeepsRecord ==
    [][\A c \in Conns, r \in RoomIds, n \in Names :
          (Join(c, r, n) /\ n \in DOMAIN players[r])
          => /\ players'[r] = players[r]
             /\ tasks'[WsKey(c)].pc = "send"
             /\ tasks'[WsKey(c)].msg = "ROOM_UPDATE"
             /\ StaysOpen(c, r)]_vars

\* a second websocket has just joined under the name of a player who has a
\* wager at stake
C12_Witness ==
    \E c \in Conns, c2 \in Conns :
        /\ c # c2
        /\ player_connections[c] = player_connections[c2]
        /\ player_connections[c] \in DOMAIN players["r1"]
        /\ players["r1"][player_connections[c]].wagered_amount > 0
        /\ tasks[WsKey(c2)].pc = "send"
        /\ tasks[WsKey(c2)].cont = "join_bcast"

C13_State == \A r \in RoomIds : host_name \notin DOMAIN players[r]

C13_Step ==
    \A c \in Conns :
        tasks[WsKey(c)].name = host_name =>
            /\ Disconnect(c) => players' = players
            /\ (\E m \in Messages : Receive(c, m)) => players' = players

\* C13: the host's name is never a key of a room's players mapping; a message
\* of the host changes no player record (no wager is taken for the host) and
\* the host's disconnect removes none.
C13_HostIsNoPlayer == []C13_State /\ [][C13_Step]_vars

\* the host is connected, in its receive loop, while a player has a wager at
\* stake
C13_Witness ==
    /\ \E n \in DOMAIN players["r1"] : players["r1"][n].wagered_amount > 0
    /\ \E c \in Conns :
          /\ player_connections[c] = host_name
          /\ tasks[WsKey(c)].pc = "listen"

\* C14: when a websocket drops it is unregistered; if its name is not the
\* host's, no player record of that name is left and, if a websocket remains
\* registered, the departure room-update is being broadcast; if its name is
\* the host's, the players, prompts, bets, status and timer stay as they were.
C14_DropRemovesPlayer ==
    [][\A c \in Conns :
          Disconnect(c) =>
            LET t == tasks[WsKey(c)]
                r == t.room
            IN  /\ ~StaysOpen(c, r)
                /\ player_connections'[c] = "-"
                /\ IF t.name # host_name
                   THEN /\ t.name \notin DOMAIN players'[r]
                        /\ Len(active_connections'[r]) > 0 =>
                              Broadcasting(tasks'[WsKey(c)], "ROOM_UPDATE")
                   ELSE UNCHANGED << players, current_event, current_bets,
                                     completed_events, game_status,
                                     room_timers, DEMO_EVENTS >>]_vars

\* websocket c is in the room's list before the step
Registered(c, r) ==
    \E j \in 1..Len(active_connections[r]) : active_connections[r][j] = c

\* task k leaves broadcast_to_room's loop
BroadcastEnds(k) ==
    /\ BroadcastStep(k)
    /\ tasks[k].i >= Len(active_connections[tasks[k].room])

\* the task that leaves its broadcast is where the code after the broadcast
\* takes it: a handler back in its receive loop, the room's new timer
\* started, the timer in its resolution delay
GoesOn(k) ==
    LET t == tasks[k]
    IN  /\ (t.cont = "return" /\ Kind(k) = "ws") => tasks'[k].pc = "listen"
        /\ t.cont = "create_timer" =>
              /\ room_timers'[t.room] # "none"
              /\ tasks'[TimerKey(t.room, room_timers'[t.room])].pc = "sleep"
        /\ t.cont = "sleep2" => tasks'[k].pc = "sleep"

\* C15: when a broadcast ends, every websocket registered for the room has
\* been sent the message (its send returned or raised), exactly the ones
\* whose send raised leave the registry, and the task that issued the
\* broadcast goes on with what follows it.
C15_FailureIsIsolated ==
    [][\A k \in TaskKeys :
          BroadcastEnds(k) =>
            LET t == tasks[k]
                r == t.room
            IN  /\ \A c \in Conns : Registered(c, r) => c \in t.got \cup t.disc
                /\ \A c \in Conns :
                      StaysOpen(c, r) <=> (Registered(c, r) /\ c \notin t.disc)
                /\ GoesOn(k)]_vars

(***************************************************************************)
(* C16: once a game has been started, under fair scheduling of timer       *)
(* wake-ups and sends the room eventually is Completed with no timer task  *)
(* of the room alive, whatever the clients do in between.                  *)
(***************************************************************************)
C16_StartedGameCompletes ==
    \A r \in RoomIds :
        (game_status[r] = "in_progress") ~>
            ( /\ game_status[r] = "completed"
              /\ \A t \in TimerIds : ~TimerAlive(r, t) )

(***************************************************************************)
(* C17: if the send to one connection of a room never completes, the       *)
(* room's timer still eventually performs close-betting and resolve for    *)
(* the current prompt: the prompt that is current becomes a completed one  *)
(* of the room.                                                            *)
(***************************************************************************)
IsCompleted(r, e) ==
    \E j \in DOMAIN completed_events[r] : completed_events[r][j] = e

Prompts(r) ==
    (IF current_event[r] # 0 THEN {current_event[r]} ELSE {})
        \cup {completed_events[r][j] : j \in DOMAIN completed_events[r]}

ActsIn(r) ==
    \/ AdminStart(r)
    \/ \E k \in TaskKeys :
          /\ tasks[k].room = r
          /\ TimerWake(k) \/ Broadcast(k) \/ SendDone(k)
    \/ \E c \in Conns :
          /\ tasks[WsKey(c)].room = r
          /\ Disconnect(c) \/ \E m \in Messages : Receive(c, m)
    \/ \E c \in Conns, n \in Names : Join(c, r, n)

C19_RoomsAreIndependent ==
    [][\A r \in RoomIds : \A q \in RoomIds \ {r} :
          (ActsIn(r) /\ current_event[q] # 0) =>
              /\ current_event'[q] = current_event[q]
              /\ DEMO_EVENTS'[current_event[q]] = DEMO_EVENTS[current_event[q]]]_vars

(***************************************************************************)
(* C20: for a game of N >= 1 prompts every accepted bet is charged exactly *)
(* floor(200 / N) points, the same amount whichever prompt is current      *)
(* (N = 6 gives 33, N = 2 gives 100): the score goes down by it and it is  *)
(* the wagered amount recorded, and no other amount is ever at stake.      *)
(***************************************************************************)
\* w is the greatest integer with w * d <= n
IsFloorOf(w, n, d) == w * d <= n /\ n < (w + 1) * d

\* the handler of websocket c has accepted a bet in this step
BetAccepted(c) ==
    /\ tasks[WsKey(c)].pc = "listen"
    /\ tasks'[WsKey(c)].pc = "send"
    /\ tasks'[WsKey(c)].msg = "BET_PLACED"

C20_Function ==
    /\ \A N \in 1..MaxPrompts :
          IsFloorOf(calculate_wager_amount(N), WagerPool, N)
    /\ calculate_wager_amount(6) = 33
    /\ calculate_wager_amount(2) = 100

C20_State ==
    \A r \in RoomIds : \A n \in DOMAIN players[r] :
        \/ players[r][n].wagered_amount = 0
        \/ IsFloorOf(players[r][n].wagered_amount, WagerPool, NumEvents)

C20_Step ==
    \A c \in Conns :
        BetAccepted(c) =>
            LET r == tasks[WsKey(c)].room
                n == tasks[WsKey(c)].name
                charged == players[r][n].score - players'[r][n].score
            IN  /\ IsFloorOf(charged, WagerPool, NumEvents)
                /\ players'[r][n].wagered_amount = charged

C20_EveryBetChargedFloorOfPool ==
    /\ []C20_Function
    /\ []C20_State
    /\ [][C20_Step]_vars

\* a bet has been accepted on the last prompt of the game, after one on an
\* earlier prompt was resolved
C20_Witness ==
    \E c \in Conns :
        /\ tasks[WsKey(c)].pc = "send"
        /\ tasks[WsKey(c)].msg = "BET_PLACED"
        /\ current_event[tasks[WsKey(c)].room] = NumEvents
        /\ NumEvents > 1
        /\ players[tasks[WsKey(c)].room][tasks[WsKey(c)].name].wagered_amount > 0

(***************************************************************************)
(* C21: for every prompt of a started game the room's broadcasts occur in  *)
(* the order new-prompt, betting-closed, prompt-resolved; prompts are      *)
(* activated in the provider's order, prompt k+1 only after prompt k has   *)
(* been resolved; and each of the three broadcasts does occur.             *)
(***************************************************************************)
\* a task of room r is in the broadcast of msg for prompt e
InBroadcast(r, msg, e) ==
    \E k \in TaskKeys :
        /\ Broadcasting(tasks[k], msg)
        /\ tasks[k].room = r
        /\ (IF msg = "NEW_EVENT" THEN tasks[k].next ELSE tasks[k].ev) = e

C21_Step ==
    \A r \in RoomIds :
        \* activation: in sequence order, the prompts before it resolved
        /\ (current_event'[r] # current_event[r] /\ current_event'[r] # 0) =>
              /\ current_event[r] = 0
              /\ completed_events[r] = Upto(current_event'[r] - 1)
              /\ completed_events'[r] = completed_events[r]
        \* betting-closed: for the current prompt, after its new-prompt broadcast
        /\ \A e \in EventIds :
              (~InBroadcast(r, "BETTING_CLOSED", e) /\ InBroadcast(r, "BETTING_CLOSED", e)') =>
                  /\ current_event[r] = e
                  /\ ~InBroadcast(r, "NEW_EVENT", e)
        \* resolution: of the current prompt, by its timer's second phase
        /\ completed_events'[r] # completed_events[r] =>
              /\ current_event[r] # 0
              /\ completed_events'[r] = Append(completed_events[r], current_event[r])
              /\ current_event'[r] = 0
              /\ ~InBroadcast(r, "BETTING_CLOSED", current_event[r])
              /\ \E t \in TimerIds :
                    /\ Resolves(TimerKey(r, t))
                    /\ tasks[TimerKey(r, t)].ev = current_event[r]

\* each of the three broadcasts does occur: the timer of the current prompt,
\* when its first sleep returns, starts the betting-closed broadcast, and when
\* its second sleep returns, the prompt-resolved broadcast (unless nobody is
\* registered for the room)
C21_Occur ==
    \A k \in TaskKeys :
        ( /\ CallbackRuns(k)
          /\ ~Superseded(k)
          /\ active_connections[tasks[k].room] # << >> )
        => /\ tasks'[k].ev = tasks[k].ev
           /\ tasks[k].cont = "close_betting" =>
                 Broadcasting(tasks'[k], "BETTING_CLOSED")
           /\ tasks[k].cont = "resolve_event" =>
                 Broadcasting(tasks'[k], "EVENT_RESOLVED")

C21_PromptMessagesInOrder == [][C21_Step /\ C21_Occur]_vars

(***************************************************************************)
(* C22: immediately after a prompt is resolved the current bet set is      *)
(* empty, every player of the room has no selected answer and a wagered    *)
(* amount of 0, the room has no current prompt and the resolved prompt is  *)
(* the last of the completed prompts; and whenever a room has no current   *)
(* prompt, no player of it has a non-zero wagered amount.                  *)
(***************************************************************************)
C22_Step ==
    \A k \in TaskKeys :
        Resolves(k) =>
            LET r == tasks[k].room
            IN  /\ current_bets'[r] = EmptyMap
                /\ \A n \in DOMAIN players'[r] :
                      /\ players'[r][n].current_bet = 0
                      /\ players'[r][n].wagered_amount = 0
                /\ current_event'[r] = 0
                /\ Len(completed_events'[r]) = Len(completed_events[r]) + 1
                /\ completed_events'[r][Len(completed_events'[r])] = tasks[k].ev

C22_State ==
    \A r \in RoomIds :
        current_event[r] = 0 =>
            \A n \in DOMAIN players[r] : players[r][n].wagered_amount = 0

C22_ResolutionClearsBets == []C22_State /\ [][C22_Step]_vars

\* a prompt on which somebody had a wager at stake has just been resolved:
\* its timer is in the prompt-resolved broadcast
C22_Witness ==
    \E r \in RoomIds, t \in TimerIds :
        /\ Broadcasting(tasks[TimerKey(r, t)], "EVENT_RESOLVED")
        /\ current_event[r] = 0
        /\ \E n \in DOMAIN players[r] : players[r][n].score # StartScore

(***************************************************************************)
(* C23: a broadcast delivers the message to every connection that is       *)
(* registered for the room from its start to its end, even if another      *)
(* connection of the room disconnects or is pruned while the broadcast is  *)
(* suspended on a send: when the loop ends, every websocket that is        *)
(* registered and stays so has had the message sent to it.                 *)
(***************************************************************************)
C23_EveryRegisteredConnectionReceives ==
    [][\A k \in TaskKeys :
          BroadcastEnds(k) =>
              \A c \in Conns :
                  (Registered(c, tasks[k].room) /\ StaysOpen(c, tasks[k].room))
                      => c \in tasks[k].got]_vars

(***************************************************************************)
(* C24: after the betting-closed message for a prompt has been broadcast   *)
(* in a room, no bet on that prompt is accepted in that room, up to and    *)
(* including its resolution: no message a handler of the room receives     *)
(* changes a player record or the bet set of the room.                     *)
(***************************************************************************)
\* the timer of the room's current prompt is through its betting-closed
\* broadcast and in its resolution delay
BettingClosed(r) ==
    /\ current_event[r] # 0
    /\ \E t \in TimerIds :
          LET task == tasks[TimerKey(r, t)]
          IN  /\ task.pc = "sleep"
              /\ task.cont = "resolve_event"
              /\ task.room = r
              /\ task.ev = current_event[r]

C25_ScoreNeverNegative ==
    \A r \in RoomIds : \A n \in DOMAIN players[r] : players[r][n].score >= 0

\* a player has bet until the score is below the wager
C25_Witness ==
    \E r \in RoomIds : \E n \in DOMAIN players[r] :
        /\ players[r][n].wagered_amount > 0
        /\ players[r][n].score < calculate_wager_amount(NumEvents)

C27_State ==
    \A r \in RoomIds :
        Total(players[r]) <= StartScore * Cardinality(DOMAIN players[r])

C27_Step ==
    \A r \in RoomIds :
        DOMAIN players'[r] = DOMAIN players[r] =>
            Total(players'[r]) <= Total(players[r])

C27_NoPointsCreated == []C27_State /\ [][C27_Step]_vars

\* points have moved from one player to another
C27_Witness ==
    \E r \in RoomIds : \E n \in DOMAIN players[r] : players[r][n].score > StartScore

(***************************************************************************)
(* C28: in every reachable state, each non-host player name that has a     *)
(* registered connection in a room is a key of that room's players         *)
(* mapping, also when the same name is connected twice and one of the two  *)
(* connections drops.                                                      *)
(***************************************************************************)
C28_ConnectedPlayerHasRecord ==
    \A r \in RoomIds : \A c \in Conns :
        ( /\ Registered(c, r)
          /\ ~client_gone[c]
          /\ player_connections[c] # host_name )
        => player_connections[c] \in DOMAIN players[r]

(***************************************************************************)
(* C29: a place_bet sent by the host while a prompt is open changes no     *)
(* score and records no bet, and does not end the host's session: the      *)
(* host's websocket stays registered and its handler goes on.              *)
(***************************************************************************)
\* the room has a current prompt that is active and not past its expiry
PromptOpen(r) ==
    /\ current_event[r] # 0
    /\ DEMO_EVENTS[current_event[r]].status = "active"
    /\ DEMO_EVENTS[current_event[r]].expires_at # << >>
    /\ DEMO_EVENTS[current_event[r]].expires_at[1] >= 0

C29_HostBetIsHarmless ==
    [][\A c \in Conns, m \in Messages :
          ( /\ Receive(c, m)
            /\ m.type = "place_bet"
            /\ tasks[WsKey(c)].name = host_name
            /\ PromptOpen(tasks[WsKey(c)].room) )
          => LET r == tasks[WsKey(c)].room
             IN  /\ players'[r] = players[r]
                 /\ current_bets'[r] = current_bets[r]
                 /\ StaysOpen(c, r)
                 /\ tasks'[WsKey(c)].pc # "none"]_vars

(***************************************************************************)
(* C30: whatever path starts a game (the host's start_game message or the  *)
(* admin start endpoint), a room never becomes InProgress while it has     *)
(* zero non-host players, and its first prompt is activated at most once.  *)
(***************************************************************************)
C30_StartNeedsPlayers ==
    [][\A r \in RoomIds :
          /\ (game_status[r] # "in_progress" /\ game_status'[r] = "in_progress") =>
                DOMAIN players[r] \ {host_name} # {}
          /\ (current_event[r] # 1 /\ current_event'[r] = 1) =>
                /\ game_status[r] = "waiting"
                /\ completed_events[r] = << >>]_vars

====
